---- MODULE Spec2Model ----
(***************************************************************************)
(* The shop application (src/shop): the Product, Cart, Wallet and Order    *)
(* tables and the request handlers of views.py that read and write them.   *)
(*                                                                         *)
(* Every handler is written once, as a step function over its database     *)
(* reads and writes (Step).  Spec runs each request to completion as one   *)
(* action (requests served one after another); SpecConc lets the steps of  *)
(* several requests interleave (requests served by concurrent workers).    *)
(* Money is counted in the smallest unit the DecimalFields keep.           *)
(***************************************************************************)
EXTENDS Integers, Sequences, FiniteSets, TLC

\* ------------------------------------------------------------- bounds
\* Requests of each view served in one behaviour (the two sales reports count
\* as one view).
MaxAddToCart == 2
MaxAddFunds == 2
MaxBuyCart == 1
MaxReports == 1
\* Checkouts served in one behaviour of SpecConc.
MaxConcBuyCart == 2

Users == {"u1", "u2"}
\* The rows of the Product table, made by AddProductView before the run:
\* the product's id is its index.
Catalog ==
    << [price |-> 1, no_of_stocks |-> 2, brand |-> "acme"],
       [price |-> 2, no_of_stocks |-> 2, brand |-> "acme"] >>
Products == DOMAIN Catalog
\* product_id values a request may carry: the ids of the table and one that is not.
MissingProductId == Len(Catalog) + 1
ProductIds == Products \cup {MissingProductId}
\* The 'quantity' field of an add-to-cart body: absent, a JSON integer, or a
\* string that is not a number.
QuantityInputs ==
    { [kind |-> "absent", val |-> 0], [kind |-> "text", val |-> 0] }
        \cup { [kind |-> "int", val |-> n] : n \in {-3, 2} }
\* The 'amount' field of a top-up body: absent, a string that is not a number,
\* a JSON list, a JSON object, or a number.
AmountInputs ==
    { [kind |-> k, val |-> 0] : k \in {"absent", "text", "list", "dict"} }
        \cup { [kind |-> "num", val |-> n] : n \in {0, 2, 8} }
\* The from_date / to_date query parameters: absent or the empty string (both
\* falsy), a string that is no YYYY-MM-DD, or the string "2024-09-DD" with
\* DD = d.
DateInputs ==
    { [kind |-> k, d |-> 0] : k \in {"absent", "text"} }
        \cup { [kind |-> "iso", d |-> d] : d \in {27, 31} }
\* The day of September 2024 timezone.now() falls on when an Order row is
\* inserted.
Days == {27, 28}

\* ------------------------------------------------------------- state
VARIABLES
    stock,       \* Product.no_of_stocks of every product
    cart,        \* the rows of the Cart table
    nextCartId,  \* the Cart table's next auto-increment id
    wallet,      \* Wallet.balance of every user that has a Wallet row
    orders,      \* the rows of the Order table, in insertion order
    loc,         \* the request each worker is serving, and where it is in it
    resp,        \* the response sent last (see Answer)
    nreq         \* requests of each view started so far

vars == << stock, cart, nextCartId, wallet, orders, loc, resp, nreq >>

Workers == {"w1", "w2"}

\* ------------------------------------------------------------- records
NoQuantity == [kind |-> "absent", val |-> 0]
NoAmount == [kind |-> "absent", val |-> 0]
NoDate == [kind |-> "absent", d |-> 0]

\* A request: the view it is routed to (urls.py), request.user, and the fields
\* of its body or query string.
NoRequest ==
    [ op |-> "none", user |-> "", product_id |-> 0, quantity |-> NoQuantity,
      amount |-> NoAmount, from_date |-> NoDate, to_date |-> NoDate ]
AddToCartRequest(u, pid, q) ==
    [NoRequest EXCEPT !.op = "add", !.user = u, !.product_id = pid, !.quantity = q]
AddFundsRequest(u, a) ==
    [NoRequest EXCEPT !.op = "funds", !.user = u, !.amount = a]
BuyCartRequest(u) ==
    [NoRequest EXCEPT !.op = "buy", !.user = u]
SalesReportRequest(kind, f, t) ==
    [NoRequest EXCEPT !.op = kind, !.from_date = f, !.to_date = t]

\* A response: the status, the error (the "error" field of a 4xx body, or the
\* exception that escaped the handler for a 500), and the fields of a 200 body.
\* created and read are not sent: created says that the request inserted a Cart
\* row, read that it queried the Order table.
NoResp ==
    [ req |-> NoRequest, status |-> 0, error |-> "", total |-> 0, balance |-> 0,
      created |-> FALSE, read |-> FALSE, result |-> {} ]

NoItem == [id |-> 0, quantity |-> 0]

\* A worker: the request it serves, the statement it is at, and the handler's
\* local variables (cart_item; cart_items with each item.product as loaded;
\* the loop index; total_price; wallet.balance of the Wallet object).  fresh
\* says that the Wallet object is the one get_or_create has just created: its
\* balance is then the field's default as written, the float 0.00, and not the
\* Decimal a row read from the database holds.
Idle ==
    [ pc |-> "idle", req |-> NoRequest, item |-> NoItem, created |-> FALSE,
      items |-> << >>, idx |-> 0, total |-> 0, balance |-> 0, fresh |-> FALSE,
      resp |-> NoResp ]

\* The database as one value.
DB ==
    [ stock |-> stock, cart |-> cart, nextCartId |-> nextCartId,
      wallet |-> wallet, orders |-> orders ]

Cfg(db, l) == [db |-> db, loc |-> l]
Goto(db, l, pc) == Cfg(db, [l EXCEPT !.pc = pc])
Response(l, status, error) ==
    [NoResp EXCEPT !.req = l.req, !.status = status, !.error = error]
Finish(db, l, r) == Cfg(db, [l EXCEPT !.pc = "done", !.resp = r])

\* ------------------------------------------------------------- models.py
\* Cart.quantity = IntegerField(default=1)
DefaultQuantity == 1
\* Wallet.balance = DecimalField(default=0.00)
DefaultBalance == 0

\* float + Decimal and float - Decimal raise TypeError; float with int does not.
FloatArithmeticFails(fresh, otherIsDecimal) == fresh /\ otherIsDecimal

\* ------------------------------------------------------------- AddToCartView
\* request.data.get('quantity', 1)
RequestDefaultQuantity == 1

\* int(quantity): the integer, or the exception int() raises.
IntOf(q) ==
    CASE q.kind = "absent" -> [exc |-> "", val |-> RequestDefaultQuantity]
      [] q.kind = "int" -> [exc |-> "", val |-> q.val]
      [] OTHER -> [exc |-> "ValueError", val |-> 0]

CartRowsOf(c, u, p) == {r \in c : r.user = u /\ r.product = p}

\* Product.objects.get(id=product_id)
AddLookupProduct(db, l) ==
    IF l.req.product_id \in DOMAIN db.stock
    THEN {Goto(db, l, "a_get")}
    ELSE {Finish(db, l, Response(l, 404, "Product not found"))}

\* get_or_create, its get(): the row, DoesNotExist, or MultipleObjectsReturned.
AddGetCartItem(db, l) ==
    LET rows == CartRowsOf(db.cart, l.req.user, l.req.product_id) IN
    IF rows = {}
    THEN {Goto(db, l, "a_create")}
    ELSE IF Cardinality(rows) = 1
    THEN LET r == CHOOSE r \in rows : TRUE IN
         {Cfg(db, [l EXCEPT !.pc = "a_save",
                            !.item = [id |-> r.id, quantity |-> r.quantity]])}
    ELSE {Finish(db, l, Response(l, 500, "MultipleObjectsReturned"))}

\* get_or_create, its create(): Cart has no unique constraint, the INSERT
\* always succeeds.
AddCreateCartItem(db, l) ==
    LET row == [ id |-> db.nextCartId, user |-> l.req.user,
                 product |-> l.req.product_id, quantity |-> DefaultQuantity ] IN
    {Cfg([db EXCEPT !.cart = @ \cup {row}, !.nextCartId = @ + 1],
         [l EXCEPT !.pc = "a_save", !.created = TRUE,
                   !.item = [id |-> row.id, quantity |-> row.quantity]])}

\* What cart_item.quantity += int(quantity) leaves in cart_item.quantity.
AddedQuantity(current, n) == current + n

\* cart_item.quantity += int(quantity); cart_item.save(): an UPDATE of the row
\* with cart_item's id, or an INSERT of it when the row is gone.
AddSaveCartItem(db, l) ==
    LET n == IntOf(l.req.quantity) IN
    IF n.exc # ""
    THEN {Finish(db, l, [Response(l, 500, n.exc) EXCEPT !.created = l.created])}
    ELSE LET row == [ id |-> l.item.id, user |-> l.req.user,
                      product |-> l.req.product_id,
                      quantity |-> AddedQuantity(l.item.quantity, n.val) ]
             others == {r \in db.cart : r.id # l.item.id}
         IN {Finish([db EXCEPT !.cart = others \cup {row}], l,
                    [Response(l, 200, "") EXCEPT !.created = l.created])}

\* ------------------------------------------------------------- Wallet
\* Wallet.objects.get_or_create(user=...), its get(): the Wallet row's balance
\* into the handler's wallet object, or DoesNotExist.
WalletGet(db, l, found, absent) ==
    IF l.req.user \in DOMAIN db.wallet
    THEN {Cfg(db, [l EXCEPT !.pc = found, !.balance = db.wallet[l.req.user],
                            !.fresh = FALSE])}
    ELSE {Goto(db, l, absent)}

\* get_or_create, its create(): Wallet.user is a OneToOneField, so the INSERT
\* fails with IntegrityError when another request inserted the row meanwhile,
\* and get_or_create then calls get() again.
WalletCreate(db, l, made, again) ==
    IF l.req.user \in DOMAIN db.wallet
    THEN {Goto(db, l, again)}
    ELSE {Cfg([db EXCEPT !.wallet =
                  [u \in DOMAIN db.wallet \cup {l.req.user} |->
                      IF u = l.req.user THEN DefaultBalance ELSE db.wallet[u]]],
              [l EXCEPT !.pc = made, !.balance = DefaultBalance, !.fresh = TRUE])}

\* wallet.save(): an UPDATE of the row's balance.
WalletSave(db, u, balance) == [db EXCEPT !.wallet[u] = balance]

\* ------------------------------------------------------------- AddFundsToWallet
\* Decimal(amount): the value, or the exception Decimal() raises
\* (decimal.InvalidOperation is an ArithmeticError).
DecimalOf(a) ==
    CASE a.kind = "num" -> [exc |-> "", val |-> a.val]
      [] a.kind = "text" -> [exc |-> "InvalidOperation", val |-> 0]
      [] a.kind = "list" -> [exc |-> "ValueError", val |-> 0]
      [] OTHER -> [exc |-> "TypeError", val |-> 0]

\* except (ValueError, TypeError)
AmountExceptionCaught(exc) == exc \in {"ValueError", "TypeError"}

\* if amount <= 0
AmountRejected(amount) == amount <= 0

\* The checks on 'amount' before the wallet is touched: the response that ends
\* the request, or NoResp when the amount is accepted.
AmountCheck(l) ==
    LET a == l.req.amount
        dec == DecimalOf(a)
    IN IF a.kind = "absent" THEN Response(l, 400, "Amount is required")
       ELSE IF dec.exc # ""
       THEN IF AmountExceptionCaught(dec.exc)
            THEN Response(l, 400, "Invalid amount. Must be a valid number.")
            ELSE Response(l, 500, dec.exc)
       ELSE IF AmountRejected(dec.val)
       THEN Response(l, 400, "Amount must be a positive number")
       ELSE NoResp

FundsGetWallet(db, l) ==
    IF AmountCheck(l) # NoResp
    THEN {Finish(db, l, AmountCheck(l))}
    ELSE WalletGet(db, l, "f_save", "f_create")

FundsCreateWallet(db, l) == WalletCreate(db, l, "f_save", "f_get")

\* wallet.balance += amount (amount is a Decimal); wallet.save(); the 200
\* response.
FundsSaveWallet(db, l) ==
    LET b == l.balance + DecimalOf(l.req.amount).val IN
    IF FloatArithmeticFails(l.fresh, TRUE)
    THEN {Finish(db, l, Response(l, 500, "TypeError"))}
    ELSE {Finish(WalletSave(db, l.req.user, b), l,
                 [Response(l, 200, "") EXCEPT !.balance = b])}

\* ------------------------------------------------------------- BuyCartView
RECURSIVE Perms(_)
\* The orders in which a query with no ORDER BY may return a set of rows.
Perms(S) ==
    IF S = {} THEN { << >> }
    ELSE UNION { { <<r>> \o t : t \in Perms(S \ {r}) } : r \in S }

UserRows(c, u) == {r \in c : r.user = u}

\* cart_items.exists()
BuyExists(db, l) ==
    IF UserRows(db.cart, l.req.user) = {}
    THEN {Finish(db, l, Response(l, 400, "Your cart is empty"))}
    ELSE {Goto(db, l, "b_load")}

\* The query of cart_items, run once by the generator of line 127 and cached:
\* the rows as read, item.product not loaded yet.
BuyLoadItems(db, l) ==
    { Cfg(db, [l EXCEPT !.pc = IF Len(s) = 0 THEN "b_wget" ELSE "b_product",
                        !.idx = 1, !.total = 0,
                        !.items = [i \in DOMAIN s |->
                            [ id |-> s[i].id, product |-> s[i].product,
                              quantity |-> s[i].quantity,
                              price |-> 0, no_of_stocks |-> 0 ]]])
      : s \in Perms(UserRows(db.cart, l.req.user)) }

\* The line price without the quantity.
LinePriceUnit(price, quantity) == price

\* item.product.price * item.quantity
LinePrice(price, quantity) == price * quantity

\* One term of the sum of line 127: item.product is loaded (and kept on the
\* item) and its price times the quantity is added to the total.
BuyLoadProduct(db, l) ==
    LET it == l.items[l.idx]
        loaded == [it EXCEPT !.price = Catalog[it.product].price,
                             !.no_of_stocks = db.stock[it.product]]
    IN {Cfg(db, [l EXCEPT !.items[l.idx] = loaded,
                          !.total = @ + LinePrice(loaded.price, loaded.quantity),
                          !.idx = @ + 1,
                          !.pc = IF l.idx = Len(l.items) THEN "b_wget" ELSE "b_product"])}

BuyGetWallet(db, l) == WalletGet(db, l, "b_debit", "b_wcreate")

BuyCreateWallet(db, l) == WalletCreate(db, l, "b_debit", "b_wget")

\* The balance check with its operands exchanged.
InsufficientBalanceReversed(balance, total) == total < balance

\* if wallet.balance < total_price
InsufficientBalance(balance, total) == balance < total

\* The debit written before the balance is checked.
BuyDebitThenCheck(db, l) ==
    LET b == l.balance - l.total IN
    IF InsufficientBalance(l.balance, l.total)
    THEN {Finish(WalletSave(db, l.req.user, b), l,
                 Response(l, 400, "Insufficient balance in wallet"))}
    ELSE IF FloatArithmeticFails(l.fresh, Len(l.items) > 0)
    THEN {Finish(db, l, Response(l, 500, "TypeError"))}
    ELSE {Cfg(WalletSave(db, l.req.user, b),
              [l EXCEPT !.balance = b, !.idx = 1,
                        !.pc = IF Len(l.items) = 0 THEN "b_delete" ELSE "b_line"])}

\* The balance check (a float compares with a Decimal), then
\* wallet.balance -= total_price; wallet.save().  total_price is the int 0 of
\* sum() for no item and a Decimal otherwise.
BuyDebit(db, l) ==
    IF InsufficientBalance(l.balance, l.total)
    THEN {Finish(db, l, Response(l, 400, "Insufficient balance in wallet"))}
    ELSE IF FloatArithmeticFails(l.fresh, Len(l.items) > 0)
    THEN {Finish(db, l, Response(l, 500, "TypeError"))}
    ELSE LET b == l.balance - l.total IN
         {Cfg(WalletSave(db, l.req.user, b),
              [l EXCEPT !.balance = b, !.idx = 1,
                        !.pc = IF Len(l.items) = 0 THEN "b_delete" ELSE "b_line"])}

\* The stock check asking only whether any stock is left.
OutOfStockNoneLeft(no_of_stocks, quantity) == no_of_stocks <= 0

\* if product.no_of_stocks < item.quantity
OutOfStock(no_of_stocks, quantity) == no_of_stocks < quantity

\* The stock check of one line, with the decrement applied to the stock as
\* persisted now (an update in the database) and not to the stock loaded.
BuyLineFreshDecrement(db, l) ==
    LET it == l.items[l.idx] IN
    IF OutOfStock(it.no_of_stocks, it.quantity)
    THEN {Finish(db, l, Response(l, 400, "Not enough stock"))}
    ELSE {Cfg([db EXCEPT !.stock[it.product] = @ - it.quantity],
              [l EXCEPT !.pc = "b_order"])}

\* The stock check of one line with the debit given back when it fails.
BuyLineRefund(db, l) ==
    LET it == l.items[l.idx] IN
    IF OutOfStock(it.no_of_stocks, it.quantity)
    THEN {Finish(WalletSave(db, l.req.user, l.balance + l.total), l,
                 Response(l, 400, "Not enough stock"))}
    ELSE {Cfg([db EXCEPT !.stock[it.product] = it.no_of_stocks - it.quantity],
              [l EXCEPT !.pc = "b_order"])}

\* The stock check of one line, then product.no_of_stocks -= item.quantity;
\* product.save(), on the Product object loaded at line 127.
BuyLine(db, l) ==
    LET it == l.items[l.idx] IN
    IF OutOfStock(it.no_of_stocks, it.quantity)
    THEN {Finish(db, l, Response(l, 400, "Not enough stock"))}
    ELSE {Cfg([db EXCEPT !.stock[it.product] = it.no_of_stocks - it.quantity],
              [l EXCEPT !.pc = "b_order"])}

\* The days now() can fall on: not before the last Order inserted.
Now(db) ==
    {d \in Days : Len(db.orders) = 0 \/ d >= db.orders[Len(db.orders)].day}

\* Order.objects.create(...): date_of_purchase is auto_now_add, so the value
\* the request passes is overwritten with now().
BuyCreateOrder(db, l) ==
    LET it == l.items[l.idx] IN
    { Cfg([db EXCEPT !.orders = Append(@,
              [ user |-> l.req.user, product |-> it.product,
                price |-> LinePrice(it.price, it.quantity), day |-> d ])],
          [l EXCEPT !.idx = @ + 1,
                    !.pc = IF l.idx = Len(l.items) THEN "b_delete" ELSE "b_line"])
      : d \in Now(db) }

\* The delete of the loop's last item only (item.delete()).
BuyDeleteLastItem(db, l) ==
    {Finish([db EXCEPT !.cart = {r \in @ : Len(l.items) = 0
                                          \/ r.id # l.items[Len(l.items)].id}], l,
            [Response(l, 200, "") EXCEPT !.total = l.total, !.balance = l.balance])}

\* cart_items.delete(): DELETE of the user's rows; the 200 response.
BuyDeleteCart(db, l) ==
    {Finish([db EXCEPT !.cart = @ \ UserRows(@, l.req.user)], l,
            [Response(l, 200, "") EXCEPT !.total = l.total, !.balance = l.balance])}

\* ------------------------------------------------------------- sales reports
\* parse_date(value): the day of a well-formed valid date, None for a string
\* that is no YYYY-MM-DD, ValueError for a YYYY-MM-DD that is no calendar date
\* (September has 30 days).
ParseDate(v) ==
    CASE v.kind = "iso" /\ v.d \in 1..30 -> [exc |-> "", none |-> FALSE, day |-> v.d]
      [] v.kind = "iso" -> [exc |-> "ValueError", none |-> FALSE, day |-> 0]
      [] OTHER -> [exc |-> "", none |-> TRUE, day |-> 0]

\* if not from_date or not to_date
DateMissing(v) == v.kind = "absent"

\* datetime.combine(date, time): TypeError when date is None.
CombineFails(parsed) == parsed.none

\* Lines 170-182 (200-212): the response that ends the request before the
\* query, or NoResp when the range is accepted.
RangeCheck(l) ==
    LET f == ParseDate(l.req.from_date)
        t == ParseDate(l.req.to_date)
    IN IF DateMissing(l.req.from_date) \/ DateMissing(l.req.to_date)
       THEN Response(l, 400, "Both 'from_date' and 'to_date' are required")
       ELSE IF f.exc # "" THEN Response(l, 500, f.exc)
       ELSE IF t.exc # "" THEN Response(l, 500, t.exc)
       ELSE IF CombineFails(f) \/ CombineFails(t) THEN Response(l, 500, "TypeError")
       ELSE NoResp

RECURSIVE SumPrice(_, _)
\* Sum('price') over the rows of indices S.
SumPrice(os, S) ==
    IF S = {} THEN 0
    ELSE LET i == CHOOSE i \in S : TRUE IN os[i].price + SumPrice(os, S \ {i})

\* filter(date_of_purchase__range=[from 00:00, to 23:59:59.999999])
InRange(os, from, to) == {i \in DOMAIN os : from <= os[i].day /\ os[i].day <= to}

\* values(key).annotate(count=Count('id'), total_price_sold=Sum('price')):
\* one group per key (order_by(key) lists them by ascending key); keyOf[i] is
\* the key of row i.
Groups(os, S, keyOf) ==
    { [ key |-> k,
        count |-> Cardinality({i \in S : keyOf[i] = k}),
        total_price_sold |-> SumPrice(os, {i \in S : keyOf[i] = k}) ]
      : k \in {keyOf[i] : i \in S} }

DateKey(o) == o.day
BrandKey(o) == Catalog[o.product].brand

SalesReport(db, l) ==
    IF RangeCheck(l) # NoResp
    THEN {Finish(db, l, RangeCheck(l))}
    ELSE LET S == InRange(db.orders, ParseDate(l.req.from_date).day,
                          ParseDate(l.req.to_date).day)
         IN {Finish(db, l,
                [Response(l, 200, "") EXCEPT
                    !.read = TRUE,
                    !.result = IF l.req.op = "report_date"
                               THEN Groups(db.orders, S,
                                           [i \in S |-> DateKey(db.orders[i])])
                               ELSE Groups(db.orders, S,
                                           [i \in S |-> BrandKey(db.orders[i])])])}

\* ------------------------------------------------------------- handlers
\* The worker that starts serving a request.
Start(req) ==
    [Idle EXCEPT !.req = req,
                 !.pc = CASE req.op = "add" -> "a_product"
                          [] req.op = "funds" -> "f_get"
                          [] req.op = "buy" -> "b_exists"
                          [] OTHER -> "r_get"]

\* One database operation of a handler, with the local computation up to the
\* next one: the configurations it can lead to.
Step(db, l) ==
    CASE l.pc = "a_product" -> AddLookupProduct(db, l)
      [] l.pc = "a_get" -> AddGetCartItem(db, l)
      [] l.pc = "a_create" -> AddCreateCartItem(db, l)
      [] l.pc = "a_save" -> AddSaveCartItem(db, l)
      [] l.pc = "f_get" -> FundsGetWallet(db, l)
      [] l.pc = "f_create" -> FundsCreateWallet(db, l)
      [] l.pc = "f_save" -> FundsSaveWallet(db, l)
      [] l.pc = "b_exists" -> BuyExists(db, l)
      [] l.pc = "b_load" -> BuyLoadItems(db, l)
      [] l.pc = "b_product" -> BuyLoadProduct(db, l)
      [] l.pc = "b_wget" -> BuyGetWallet(db, l)
      [] l.pc = "b_wcreate" -> BuyCreateWallet(db, l)
      [] l.pc = "b_debit" -> BuyDebit(db, l)
      [] l.pc = "b_line" -> BuyLine(db, l)
      [] l.pc = "b_order" -> BuyCreateOrder(db, l)
      [] l.pc = "b_delete" -> BuyDeleteCart(db, l)
      [] l.pc = "r_get" -> SalesReport(db, l)
      [] OTHER -> {Cfg(db, l)}

RECURSIVE RunAll(_)
\* The configurations a set of handlers can end in, each run alone to its
\* response.
RunAll(S) ==
    IF \A c \in S : c.loc.pc = "done" THEN S
    ELSE RunAll(UNION { IF c.loc.pc = "done" THEN {c} ELSE Step(c.db, c.loc)
                        : c \in S })

Run(req) == RunAll({Cfg(DB, Start(req))})

\* The database after a step.
Commit(db) ==
    /\ stock' = db.stock
    /\ cart' = db.cart
    /\ nextCartId' = db.nextCartId
    /\ wallet' = db.wallet
    /\ orders' = db.orders

\* What the state keeps of the response sent last: the view, the user, the
\* status and the error.
Answer(r) ==
    [op |-> r.req.op, user |-> r.req.user, status |-> r.status, error |-> r.error]

\* The views whose requests are counted.
Views == {"add", "funds", "buy", "report"}

View(req) == IF req.op \in {"report_date", "report_brand"} THEN "report" ELSE req.op

\* The number of requests of a view served in one behaviour.
Budget(view) ==
    CASE view = "add" -> MaxAddToCart
      [] view = "funds" -> MaxAddFunds
      [] view = "buy" -> MaxBuyCart
      [] OTHER -> MaxReports

ConcBudget(view) == IF view = "buy" THEN MaxConcBuyCart ELSE Budget(view)

\* A request is taken while its view has served fewer than max requests.
Counted(req, max) ==
    /\ nreq[View(req)] < max
    /\ nreq' = [nreq EXCEPT ![View(req)] = @ + 1]

\* ------------------------------------------------------------- Spec
Init ==
    /\ stock = [p \in Products |-> Catalog[p].no_of_stocks]
    /\ cart = {}
    /\ nextCartId = 1
    /\ wallet = [u \in {} |-> 0]
    /\ orders = << >>
    /\ loc = [w \in Workers |-> Idle]
    /\ resp = Answer(NoResp)
    /\ nreq = [v \in Views |-> 0]

\* A request served from its first statement to its response.
Serve(req) ==
    /\ Counted(req, Budget(View(req)))
    /\ \E c \in Run(req) :
        /\ Commit(c.db)
        /\ resp' = Answer(c.loc.resp)
    /\ UNCHANGED loc

AddToCart == \E u \in Users, pid \in ProductIds, q \in QuantityInputs :
    Serve(AddToCartRequest(u, pid, q))

AddFunds == \E u \in Users, a \in AmountInputs :
    Serve(AddFundsRequest(u, a))

BuyCart == \E u \in Users :
    Serve(BuyCartRequest(u))

SalesReportByDateRange == \E f \in DateInputs, t \in DateInputs :
    Serve(SalesReportRequest("report_date", f, t))

SalesReportByBrand == \E f \in DateInputs, t \in DateInputs :
    Serve(SalesReportRequest("report_brand", f, t))

Next ==
    \/ AddToCart
    \/ AddFunds
    \/ BuyCart
    \/ SalesReportByDateRange
    \/ SalesReportByBrand

Spec == Init /\ [][Next]_vars

\* ------------------------------------------------------------- SpecConc
\* The requests concurrent workers are given: well-formed add-to-cart, top-up
\* and checkout requests.
ConcRequests ==
    { AddToCartRequest(u, p, [kind |-> "int", val |-> n])
        : u \in Users, p \in Products, n \in {1} }
    \cup { AddFundsRequest(u, [kind |-> "num", val |-> n]) : u \in Users, n \in {0, 2} }
    \cup { BuyCartRequest(u) : u \in Users }

\* An idle worker takes a request.
Begin(w, req) ==
    /\ loc[w].pc = "idle"
    /\ Counted(req, ConcBudget(View(req)))
    /\ loc' = [loc EXCEPT ![w] = Start(req)]
    /\ UNCHANGED << stock, cart, nextCartId, wallet, orders, resp >>

\* A worker runs its handler up to and including its next database operation;
\* with the response sent it is idle again.
Work(w, op) ==
    /\ loc[w].pc # "idle"
    /\ loc[w].req.op = op
    /\ \E c \in Step(DB, loc[w]) :
        /\ Commit(c.db)
        /\ IF c.loc.pc = "done"
           THEN loc' = [loc EXCEPT ![w] = Idle] /\ resp' = Answer(c.loc.resp)
           ELSE loc' = [loc EXCEPT ![w] = c.loc] /\ UNCHANGED resp
    /\ UNCHANGED nreq

Accept == \E w \in Workers, req \in ConcRequests : Begin(w, req)

AddToCartStep == \E w \in Workers : Work(w, "add")

AddFundsStep == \E w \in Workers : Work(w, "funds")

BuyCartStep == \E w \in Workers : Work(w, "buy")

NextConc ==
    \/ Accept
    \/ AddToCartStep
    \/ AddFundsStep
    \/ BuyCartStep

SpecConc == Init /\ [][NextConc]_vars

\* ------------------------------------------------------------- properties
\* The outcomes of serving request req in the current state with no other
\* request interleaved: each is the database after it and the response.
Outcomes(req) == { [db |-> c.db, resp |-> c.loc.resp] : c \in Run(req) }

BalanceOf(w, u) == IF u \in DOMAIN w THEN w[u] ELSE 0

RECURSIVE SumF(_, _)
SumF(f, S) ==
    IF S = {} THEN 0
    ELSE LET x == CHOOSE x \in S : TRUE IN f[x] + SumF(f, S \ {x})

\* The sum over a set of cart rows of catalog unit price times quantity.
RowsTotal(rows) ==
    SumF([r \in rows |-> Catalog[r.product].price * r.quantity], rows)

\* The indices of the Order rows an outcome appended.
NewOrders(o) == (Len(orders) + 1) .. Len(o.db.orders)

OrdersKept(o) ==
    /\ Len(o.db.orders) >= Len(orders)
    /\ \A i \in DOMAIN orders : o.db.orders[i] = orders[i]

\* C1: for a user and an existing product with no cart line yet, an add-to-cart
\* with quantity q1 followed by an add-to-cart with quantity q2 (q1, q2 >= 1)
\* leaves exactly one cart line for the pair, of quantity q1 + q2.
C1_AddToCartAdditive ==
    \A u \in Users, p \in Products :
      \A q1, q2 \in {[kind |-> "int", val |-> n] : n \in 1..2} :
        CartRowsOf(cart, u, p) = {} =>
          \A c1 \in Run(AddToCartRequest(u, p, q1)) :
            \A c2 \in RunAll({Cfg(c1.db, Start(AddToCartRequest(u, p, q2)))}) :
              /\ Cardinality(CartRowsOf(c2.db.cart, u, p)) = 1
              /\ \A r \in CartRowsOf(c2.db.cart, u, p) : r.quantity = q1.val + q2.val

\* C2: every wallet's persisted balance is >= 0, in every state reached by
\* top-up, add-to-cart and checkout requests whose database reads and writes
\* interleave.
C2_BalanceNonNegative == \A u \in DOMAIN wallet : wallet[u] >= 0

\* Two checkouts of the same user have both passed the balance check and
\* written their debit.
C2_Witness ==
    \E u \in Users :
        /\ \A w \in Workers :
            /\ loc[w].req = BuyCartRequest(u)
            /\ loc[w].pc \in {"b_line", "b_order", "b_delete"}
            /\ loc[w].total > 0
        /\ u \in DOMAIN wallet

\* What a checkout outcome o of user u did to the stock: a product with an
\* Order appended lost the quantity of the user's cart line for it, any other
\* product kept its stock; and no stock is negative.
StockFollowsOrders(o, u) ==
    \A p \in Products :
        /\ o.db.stock[p] >= 0
        /\ IF \E i \in NewOrders(o) : o.db.orders[i].product = p
           THEN \E r \in CartRowsOf(cart, u, p) : o.db.stock[p] = stock[p] - r.quantity
           ELSE o.db.stock[p] = stock[p]

\* The cart line r of user u is not finalized by outcome o: its product's stock
\* is not decremented and no Order is appended for it.
LineNotFinalized(o, r) ==
    /\ o.db.stock[r.product] = stock[r.product]
    /\ \A i \in NewOrders(o) : o.db.orders[i].product # r.product

\* C3 as stated: a checkout leaves stock = stock before - quantity purchased,
\* no stock is ever negative, and a cart line whose quantity exceeds the stock
\* makes checkout fail with OutOfStock without finalizing that line.
C3_StockInvariantAsStated ==
    /\ \A p \in Products : stock[p] >= 0
    /\ \A u \in Users : \A o \in Outcomes(BuyCartRequest(u)) :
        /\ OrdersKept(o)
        /\ StockFollowsOrders(o, u)
        /\ \A r \in UserRows(cart, u) :
            r.quantity > stock[r.product] =>
                /\ o.resp.status = 400
                /\ o.resp.error = "Not enough stock"
                /\ LineNotFinalized(o, r)

\* C3 as amended (checkout served with no other request interleaved): the
\* same, with the checkout failing with InsufficientFunds when the wallet
\* balance (0 for a user with no wallet) is below the cart total, and with
\* OutOfStock when the user has a wallet that covers the total.
C3_StockInvariant ==
    /\ \A p \in Products : stock[p] >= 0
    /\ \A u \in Users : \A o \in Outcomes(BuyCartRequest(u)) :
        /\ OrdersKept(o)
        /\ StockFollowsOrders(o, u)
        /\ \A r \in UserRows(cart, u) :
            r.quantity > stock[r.product] =>
                /\ o.resp.status # 200
                /\ BalanceOf(wallet, u) < RowsTotal(UserRows(cart, u)) =>
                      /\ o.resp.status = 400
                      /\ o.resp.error = "Insufficient balance in wallet"
                /\ (u \in DOMAIN wallet /\ wallet[u] >= RowsTotal(UserRows(cart, u))) =>
                      /\ o.resp.status = 400
                      /\ o.resp.error = "Not enough stock"
                /\ LineNotFinalized(o, r)

\* A checkout has just failed with OutOfStock after purchasing another line.
C3_Witness ==
    /\ resp.op = "buy"
    /\ resp.error = "Not enough stock"
    /\ \E i \in DOMAIN orders : orders[i].user = resp.user
    /\ \E r \in UserRows(cart, resp.user) : r.quantity > stock[r.product]
    /\ \E p \in Products : stock[p] < Catalog[p].no_of_stocks

\* C4 as stated: a checkout that fails at the balance check leaves the set of
\* wallets, every balance, every stock, the cart and the orders as they were.
C4_InsufficientNoSideEffectsAsStated ==
    \A u \in Users : \A o \in Outcomes(BuyCartRequest(u)) :
        o.resp.error = "Insufficient balance in wallet" => o.db = DB

\* C4 as amended: a checkout that fails at the balance check changes nothing
\* but this: a user who had no Wallet row gets one with balance 0.
C4_InsufficientNoSideEffects ==
    \A u \in Users : \A o \in Outcomes(BuyCartRequest(u)) :
        o.resp.error = "Insufficient balance in wallet" =>
            /\ o.resp.status = 400
            /\ o.db.stock = stock
            /\ o.db.cart = cart
            /\ o.db.orders = orders
            /\ DOMAIN o.db.wallet = DOMAIN wallet \cup {u}
            /\ \A v \in DOMAIN wallet : o.db.wallet[v] = wallet[v]
            /\ u \notin DOMAIN wallet => o.db.wallet[u] = 0

\* A checkout has just failed at the balance check, for a user whose wallet
\* holds money and whose cart costs more.
C4_Witness ==
    /\ resp.op = "buy"
    /\ resp.error = "Insufficient balance in wallet"
    /\ BalanceOf(wallet, resp.user) > 0
    /\ RowsTotal(UserRows(cart, resp.user)) > BalanceOf(wallet, resp.user)

\* C5: a successful checkout with no concurrent request leaves the user with
\* no cart line and appends exactly one Order per cart line the user had (same
\* user, same product), and no other Order.
C5_CheckoutClearsCart ==
    \A u \in Users : \A o \in Outcomes(BuyCartRequest(u)) :
        o.resp.status = 200 =>
            /\ UserRows(o.db.cart, u) = {}
            /\ OrdersKept(o)
            /\ Cardinality(NewOrders(o)) = Cardinality(UserRows(cart, u))
            /\ \A i \in NewOrders(o) : o.db.orders[i].user = u
            /\ \A p \in Products :
                Cardinality({i \in NewOrders(o) : o.db.orders[i].product = p})
                    = Cardinality(CartRowsOf(cart, u, p))

\* A checkout of a cart of two lines has just succeeded.
C5_Witness ==
    /\ resp.op = "buy"
    /\ resp.status = 200
    /\ UserRows(cart, resp.user) = {}
    /\ \E i, j \in DOMAIN orders :
        /\ orders[i].user = resp.user /\ orders[j].user = resp.user
        /\ orders[i].product # orders[j].product
    /\ \A i \in DOMAIN orders : orders[i].price > 0

\* C6: a successful checkout reports as total the sum over the user's cart
\* lines of catalog unit price times quantity, leaves the wallet at the balance
\* before minus that total, reports that balance, and appends Orders whose
\* prices sum to the total.
C6_CheckoutChargesTotal ==
    \A u \in Users : \A o \in Outcomes(BuyCartRequest(u)) :
        o.resp.status = 200 =>
            LET total == RowsTotal(UserRows(cart, u)) IN
            /\ o.resp.total = total
            /\ u \in DOMAIN o.db.wallet
            /\ o.db.wallet[u] = BalanceOf(wallet, u) - total
            /\ o.resp.balance = o.db.wallet[u]
            /\ SumF([i \in NewOrders(o) |-> o.db.orders[i].price], NewOrders(o)) = total

\* A checkout of two lines has just succeeded and left money in the wallet.
C6_Witness ==
    /\ resp.op = "buy"
    /\ resp.status = 200
    /\ BalanceOf(wallet, resp.user) > 0
    /\ SumF([i \in DOMAIN orders |-> orders[i].price], DOMAIN orders) > 0
    /\ Len(orders) >= 2
    /\ \A i \in DOMAIN orders : orders[i].price > 0

\* C7: every persisted cart line has quantity >= 1.
C7_CartQuantityPositive == \A r \in cart : r.quantity >= 1

\* The amounts the top-up must reject: missing, not parseable as a decimal
\* (no number at all), or <= 0.
BadAmount(a) == a.kind # "num" \/ a.val <= 0

\* C8: a top-up whose amount is missing, unparseable or <= 0 ends in a 4xx and
\* leaves every wallet balance unchanged; one with an amount a > 0 finds or
\* creates the wallet, leaves its balance at the previous balance (0 if new)
\* plus a, and returns that balance.
C8_TopUp ==
    \A u \in Users, a \in AmountInputs : \A o \in Outcomes(AddFundsRequest(u, a)) :
        IF BadAmount(a)
        THEN /\ o.resp.status \in 400..499
             /\ o.db.wallet = wallet
        ELSE /\ o.resp.status = 200
             /\ u \in DOMAIN o.db.wallet
             /\ o.db.wallet[u] = BalanceOf(wallet, u) + a.val
             /\ o.resp.balance = o.db.wallet[u]
             /\ \A v \in DOMAIN wallet \ {u} : o.db.wallet[v] = wallet[v]

\* The range endpoints a report must reject: missing, or not a calendar date.
BadDate(v) == v.kind \in {"absent", "text"} \/ v.d \notin 1..30

\* C9: a sales report (by date or by brand) whose from_date or to_date is
\* missing or is no calendar date ends in a 4xx, never in an unhandled error,
\* and reads nothing from the order ledger.
C9_ReportRange ==
    \A kind \in {"report_date", "report_brand"}, f \in DateInputs, t \in DateInputs :
        \A o \in Outcomes(SalesReportRequest(kind, f, t)) :
            BadDate(f) \/ BadDate(t) =>
                /\ o.resp.status \in 400..499
                /\ ~o.resp.read

\* C10: there is at most one persisted cart line for each (user, product), in
\* every state reached by add-to-cart and checkout requests whose database
\* reads and writes interleave.
C10_CartLinesUnique ==
    \A u \in Users, p \in Products : Cardinality(CartRowsOf(cart, u, p)) <= 1

\* C11: a checkout whose loop reaches a cart line of quantity above the
\* product's stock answers OutOfStock (400) and rolls nothing back: the wallet
\* stays debited by the whole cart total, every line processed before the
\* failing one keeps its stock decrement and its Order, the failing line is not
\* finalized, and the cart is not cleared (checkout served with no other
\* request interleaved).
C11_NoRollback ==
    \A u \in Users : \A o \in Outcomes(BuyCartRequest(u)) :
        o.resp.error = "Not enough stock" =>
            /\ o.resp.status = 400
            /\ u \in DOMAIN wallet
            /\ DOMAIN o.db.wallet = DOMAIN wallet
            /\ o.db.wallet[u] = wallet[u] - RowsTotal(UserRows(cart, u))
            /\ \A v \in DOMAIN wallet \ {u} : o.db.wallet[v] = wallet[v]
            /\ OrdersKept(o)
            /\ StockFollowsOrders(o, u)
            /\ \A i \in NewOrders(o) :
                /\ o.db.orders[i].user = u
                /\ \E r \in CartRowsOf(cart, u, o.db.orders[i].product) :
                    o.db.orders[i].price = Catalog[r.product].price * r.quantity
            /\ Cardinality(NewOrders(o)) < Cardinality(UserRows(cart, u))
            /\ \E r \in UserRows(cart, u) :
                r.quantity > stock[r.product] /\ LineNotFinalized(o, r)
            /\ o.db.cart = cart

\* A cart of lines of quantity >= 1 whose checkout can end in OutOfStock after
\* the debit of a positive total and the purchase of an earlier line: the
\* wallet debited and only part of the cart turned into Orders.
C11_Witness ==
    \E u \in Users : \E o \in Outcomes(BuyCartRequest(u)) :
        /\ o.resp.error = "Not enough stock"
        /\ \A r \in UserRows(cart, u) : r.quantity >= 1
        /\ NewOrders(o) # {}
        /\ u \in DOMAIN wallet
        /\ o.db.wallet[u] < wallet[u]
        /\ \E p \in Products : o.db.stock[p] < stock[p]
        /\ UserRows(o.db.cart, u) = UserRows(cart, u)

\* The quantity the Orders record for product p: an Order's price is the unit
\* price times the quantity of its line.
SoldQuantity(p) ==
    LET of == {i \in DOMAIN orders : orders[i].product = p} IN
    SumF([i \in of |-> orders[i].price \div Catalog[p].price], of)

\* C12: checkouts whose reads and writes interleave write what they computed
\* from their own earlier reads, whatever has been written since: a stock
\* written is the stock the request loaded with its cart minus the line's
\* quantity, and a balance a checkout writes is the balance it loaded minus its
\* total.  So over-sold stock and an incorrect balance are reachable (see
\* C12_Witness).
C12_LostUpdate ==
    [][ /\ \A p \in Products :
            stock'[p] # stock[p] =>
                \E w \in Workers :
                    /\ loc[w].pc = "b_line"
                    /\ loc'[w] # loc[w]
                    /\ LET it == loc[w].items[loc[w].idx] IN
                        /\ it.product = p
                        /\ stock'[p] = it.no_of_stocks - it.quantity
        /\ \A u \in DOMAIN wallet :
            wallet'[u] # wallet[u] =>
                \E w \in Workers :
                    /\ loc'[w] # loc[w]
                    /\ loc[w].req.user = u
                    /\ \/ /\ loc[w].pc = "b_debit"
                          /\ wallet'[u] = loc[w].balance - loc[w].total
                       \/ /\ loc[w].pc = "f_save"
                          /\ wallet'[u] = loc[w].balance + DecimalOf(loc[w].req.amount).val
      ]_vars

\* Two checkouts of one user have both read the same balance and the same
\* stock, both debited and both purchased: the Orders of a product record more
\* than the stock it had, its stock is not negative, and the wallet holds the
\* balance read minus one total, not two.
C12_Witness ==
    \E u \in Users :
        /\ \A w \in Workers :
            /\ loc[w].req = BuyCartRequest(u)
            /\ loc[w].pc = "b_delete"
            /\ loc[w].total > 0
            /\ loc[w].balance = wallet[u]
        /\ \E p \in Products :
            /\ SoldQuantity(p) > Catalog[p].no_of_stocks
            /\ stock[p] >= 0

====
